---- MODULE Spec2Model ----
(***************************************************************************)
(* A model of the AI_web_crawler page loop: the duplicate / completeness   *)
(* filters (utils/data_utils.py), the page fetch-and-extract step          *)
(* (utils/scraper_utils.py), the CSV persistence step (data_utils.py) and  *)
(* the pagination driver the specification describes (section 4.3).        *)
(*                                                                         *)
(* JSON values are modelled by their text ("False", "True", "0", "0.0",    *)
(* "", "v"); a candidate (a Python dict) is a TLA+ function from its keys  *)
(* to such values, so the key set of a dict is its DOMAIN.                 *)
(***************************************************************************)
EXTENDS Naturals, Sequences, FiniteSets, TLC

\* ---------------------------------------------------------------- bounds

\* Pages the driver may fetch before the model stops it.
MaxPages == 4

\* Candidates the extraction engine returns for one page, at most.
MaxCands == 2

\* ------------------------------------------------------- the Site schema

\* Site.model_fields.keys(): the declared fields, in declaration order.
SiteFieldNames ==
    <<"name", "location", "price", "capacity", "rating", "reviews", "description">>

Range(s) == {s[i] : i \in 1..Len(s)}

SiteFields == Range(SiteFieldNames)

\* ------------------------------------------------- inputs (environment)

\* Names that occur with every shape of candidate, and names that occur on
\* complete, well-formed candidates only.
ShapedNames == {"a"}
PlainNames == {"b", "c"}
Names == ShapedNames \cup PlainNames

\* A candidate with all seven fields.
FullCandidate(n) ==
    [name |-> n, location |-> "v", price |-> "v", capacity |-> "v",
     rating |-> "4.5", reviews |-> "12", description |-> "v"]

\* All seven fields, three of them with falsy values ("" , 0.0 and 0).
FalsyCandidate(n) ==
    [name |-> n, location |-> "v", price |-> "", capacity |-> "v",
     rating |-> "0.0", reviews |-> "0", description |-> "v"]

\* d with key k bound to v (a dict gaining or rebinding one key).
WithKey(d, k, v) ==
    [x \in DOMAIN d \cup {k} |-> IF x = k THEN v ELSE d[x]]

\* d without key k (dict.pop(k, None)).
WithoutKey(d, k) == [x \in DOMAIN d \ {k} |-> d[x]]

\* The candidates the extraction engine may produce for a name.
CandidatesOf(n) ==
    IF n \in ShapedNames
    THEN { FullCandidate(n),
           FalsyCandidate(n),
           WithKey(FullCandidate(n), "error", "False"),
           WithKey(FullCandidate(n), "error", "True"),
           WithoutKey(FullCandidate(n), "description") }
    ELSE { FullCandidate(n) }

Candidates == UNION {CandidatesOf(n) : n \in Names}

SeqsUpTo(S, n) == UNION {[1..k -> S] : k \in 0..n}

\* The result of the probe fetch: success, and whether the cleaned text holds
\* the marker. A failed fetch has no cleaned text.
ProbeResults ==
    { [success |-> FALSE, marker |-> FALSE],
      [success |-> TRUE, marker |-> FALSE],
      [success |-> TRUE, marker |-> TRUE] }

\* The result of the extraction fetch: success, and the extracted payload:
\* "none" (None or the empty string), "malformed" (text json.loads rejects)
\* or "json" (text that parses to the sequence data).
ExtractionResults ==
    { [success |-> FALSE, payload |-> "none", data |-> <<>>],
      [success |-> TRUE, payload |-> "none", data |-> <<>>],
      [success |-> TRUE, payload |-> "malformed", data |-> <<>>] }
    \cup
    { [success |-> TRUE, payload |-> "json", data |-> d] :
        d \in SeqsUpTo(Candidates, MaxCands) }

\* No extraction fetch was issued.
NotFetched == [success |-> FALSE, payload |-> "unfetched", data |-> <<>>]

\* The required_keys lists a caller may pass.
RequiredKeyChoices == { SiteFieldNames, <<"name", "location">> }

\* The file at the target path when the run comes to save: absent, or a file
\* of an earlier run.
NoFile == [exists |-> FALSE, rows |-> <<>>]
OldFile == [exists |-> TRUE, rows |-> << <<"old">> >>]

\* ------------------------------------------------------- data_utils.py

\* Mutant of is_duplicate: the membership test always answers no.
is_duplicate_never(site_name, seen_values) == FALSE

\* is_duplicate(site_name, seen_values): membership in the seen-name set.
is_duplicate(site_name, seen_values) == site_name \in seen_values

\* Mutant of is_complete_site: all(site.get(key) ...), a test of the values'
\* truthiness instead of the keys' presence.
is_complete_site_truthy(site, required_keys) ==
    \A i \in 1..Len(required_keys) :
        /\ required_keys[i] \in DOMAIN site
        /\ site[required_keys[i]] \notin {"", "0", "0.0", "False"}

\* is_complete_site(site, required_keys): every required key is a key of site.
is_complete_site(site, required_keys) ==
    \A i \in 1..Len(required_keys) : required_keys[i] \in DOMAIN site

\* DictWriter._dict_to_list: the row of a dict, restval "" for a missing field.
DictToList(rowdict, fieldnames) ==
    [i \in 1..Len(fieldnames) |->
        IF fieldnames[i] \in DOMAIN rowdict THEN rowdict[fieldnames[i]] ELSE ""]

\* DictWriter with extrasaction = "raise": a dict with a key that is no field
\* makes _dict_to_list raise ValueError.
HasExtraKeys(rowdict, fieldnames) == ~(DOMAIN rowdict \subseteq Range(fieldnames))

\* The first index of valid_infos whose dict has a key that is no field, or
\* Len + 1 when there is none.
FirstBadRow(valid_infos, fieldnames) ==
    LET bad == {i \in 1..Len(valid_infos) : HasExtraKeys(valid_infos[i], fieldnames)}
    IN  IF bad = {} THEN Len(valid_infos) + 1
        ELSE CHOOSE i \in bad : \A j \in bad : i <= j

\* Mutant of save_keys_to_csv: the empty-list guard is missing, so the file is
\* opened and the header written also for no records.
save_keys_to_csv_no_guard(valid_infos, before) ==
    LET bad == FirstBadRow(valid_infos, SiteFieldNames)
        rows == [i \in 1..(bad - 1) |-> DictToList(valid_infos[i], SiteFieldNames)]
    IN  [file |-> [exists |-> TRUE, rows |-> <<SiteFieldNames>> \o rows],
         raised |-> bad <= Len(valid_infos),
         log |-> IF bad <= Len(valid_infos) THEN <<>> ELSE <<"saved">>]

\* save_keys_to_csv(valid_infos, filename) on the file `before`: the file
\* afterwards, whether the call raised, and what it printed. open(mode="w")
\* truncates; writeheader writes the field names; writerows writes the rows in
\* order and stops at the first dict that has an extra key.
save_keys_to_csv(valid_infos, before) ==
    IF Len(valid_infos) = 0
    THEN [file |-> before, raised |-> FALSE, log |-> <<"no_data">>]
    ELSE LET bad == FirstBadRow(valid_infos, SiteFieldNames)
             rows == [i \in 1..(bad - 1) |-> DictToList(valid_infos[i], SiteFieldNames)]
         IN  [file |-> [exists |-> TRUE, rows |-> <<SiteFieldNames>> \o rows],
              raised |-> bad <= Len(valid_infos),
              log |-> IF bad <= Len(valid_infos) THEN <<>> ELSE <<"saved">>]

\* ---------------------------------------------------- scraper_utils.py

\* Mutant of check_no_results: the marker is never found.
check_no_results_never(probe) == [no_results |-> FALSE, log |-> <<>>]

\* Mutant of check_no_results: every successful probe counts as "no results".
check_no_results_any_success(probe) == [no_results |-> probe.success, log |-> <<>>]

\* check_no_results: TRUE when the probe succeeded and its cleaned text holds
\* "No Results Found". The print sits in the else of the marker test, so it
\* runs when the probe succeeded without the marker.
check_no_results(probe) ==
    IF probe.success
    THEN IF probe.marker
         THEN [no_results |-> TRUE, log |-> <<>>]
         ELSE [no_results |-> FALSE, log |-> <<"probe_error">>]
    ELSE [no_results |-> FALSE, log |-> <<>>]

\* Mutant of strip_error: the error key is never removed.
strip_error_never(info) == info

\* if info.get("error") is False: info.pop("error", None)
strip_error(info) ==
    IF "error" \in DOMAIN info /\ info["error"] = "False"
    THEN WithoutKey(info, "error")
    ELSE info

\* Mutant of process_info: the name joins the seen-name set before the
\* completeness check.
process_info_marks_seen_first(info0, required_keys, acc) ==
    LET info == strip_error(info0)
        dup == is_duplicate(info["name"], acc.seen_names)
        acc1 == [acc EXCEPT !.seen_names = @ \cup {info["name"]},
                            !.log = Append(@, "processing")]
    IN  IF ~is_complete_site(info, required_keys) \/ dup
        THEN acc1
        ELSE [acc1 EXCEPT !.complete_info = Append(@, info)]

\* The body of the for loop for one candidate; acc holds complete_info, the
\* seen-name set and the lines printed so far.
process_info(info0, required_keys, acc) ==
    LET info == strip_error(info0)
        log1 == Append(acc.log, "processing")
    IN  IF ~is_complete_site(info, required_keys)
        THEN [acc EXCEPT !.log = log1]
        ELSE IF is_duplicate(info["name"], acc.seen_names)
        THEN [acc EXCEPT !.log = Append(log1, "duplicate")]
        ELSE [complete_info |-> Append(acc.complete_info, info),
              seen_names |-> acc.seen_names \cup {info["name"]},
              log |-> log1]

\* The for loop over extracted_data, from index i on.
RECURSIVE process_data(_, _, _, _)
process_data(extracted_data, i, required_keys, acc) ==
    IF i > Len(extracted_data)
    THEN acc
    ELSE process_data(extracted_data, i + 1, required_keys,
                      process_info(extracted_data[i], required_keys, acc))

\* What one call leaves behind: how it ended ("returned" or "raised"), the
\* pair it returned, the seen-name set afterwards, the lines it printed, the
\* number of crawler.arun calls it made and the extraction result it read.
CallResult(outcome, records, flag, seen, log, fetches, ext) ==
    [outcome |-> outcome, records |-> records, flag |-> flag,
     seen_names |-> seen, log |-> log, fetches |-> fetches, ext |-> ext]

\* fetch_and_process_page for one page: probe is the result of the probe
\* fetch, ext the result the extraction fetch gives if it is issued.
fetch_and_process_page(probe, ext, required_keys, seen_names) ==
    LET chk == check_no_results(probe)
        log0 == <<"loading">> \o chk.log
    IN  IF chk.no_results
        THEN CallResult("returned", <<>>, TRUE, seen_names, log0, 1, NotFetched)
        ELSE IF ~(ext.success /\ ext.payload # "none")
        THEN CallResult("returned", <<>>, FALSE, seen_names,
                        Append(log0, "fetch_error"), 2, ext)
        ELSE IF ext.payload = "malformed"
        THEN CallResult("raised", <<>>, FALSE, seen_names, log0, 2, ext)
        ELSE IF Len(ext.data) = 0
        THEN CallResult("returned", <<>>, FALSE, seen_names,
                        Append(log0, "no_venues"), 2, ext)
        ELSE LET acc == process_data(ext.data, 1, required_keys,
                            [complete_info |-> <<>>, seen_names |-> seen_names,
                             log |-> Append(log0, "extracted_data")])
             IN  IF Len(acc.complete_info) = 0
                 THEN CallResult("returned", <<>>, FALSE, acc.seen_names,
                                 Append(acc.log, "no_complete"), 2, ext)
                 ELSE CallResult("returned", acc.complete_info, FALSE,
                                 acc.seen_names,
                                 Append(acc.log, "extracted_count"), 2, ext)

\* ------------------------------------------------------------- the state

VARIABLES
    required_keys,  \* the required_keys list the caller passes on every call
    seen_names,     \* the seen-name set shared by all calls of the run
    page_number,    \* the driver's page cursor
    all_venues,     \* the driver's master sequence of accepted records
    pc,             \* where the run is: loop, returned, crashed, done, saved, save_raised
    call,           \* the call in hand: its page, its probe result, seen_names at entry
    ret,            \* what the call in hand left behind (CallResult)
    file,           \* the file at the target path
    file_before,    \* the file at the target path when save_keys_to_csv was called
    scenario,       \* how far the run has followed the three-page scenario:
                    \* start, page1, page2, ended, or off once it has left it
    dropped         \* names of the candidates dropped so far for a missing key

vars == <<required_keys, seen_names, page_number, all_venues, pc, call, ret,
          file, file_before, scenario, dropped>>

NoCall == [page |-> 0, probe |-> [success |-> FALSE, marker |-> FALSE],
           seen_before |-> {}]
NoResult == CallResult("none", <<>>, FALSE, {}, <<>>, 0, NotFetched)

\* A candidate with every field of the schema.
HasAllFields(c) == SiteFields \subseteq DOMAIN c

\* The three-page scenario, read off the inputs of the calls: page 1 yields two
\* valid candidates with different names, page 2 one candidate with a page-1
\* name and one valid candidate with a new name, page 3 holds the marker.
ScenarioNext(stage, page, probe, ext, seen) ==
    LET d == ext.data
        two == ~(probe.success /\ probe.marker) /\ ext.success
               /\ ext.payload = "json" /\ Len(d) = 2
    IN  IF stage = "start" /\ page = 1 /\ two /\ seen = {}
           /\ HasAllFields(d[1]) /\ HasAllFields(d[2]) /\ d[1].name # d[2].name
        THEN "page1"
        ELSE IF stage = "page1" /\ page = 2 /\ two
                /\ HasAllFields(d[1]) /\ HasAllFields(d[2])
                /\ \E i \in 1..2 : d[i].name \in seen /\ d[3 - i].name \notin seen
        THEN "page2"
        ELSE IF stage = "page2" /\ page = 3 /\ probe.success /\ probe.marker
        THEN "ended"
        ELSE "off"

\* The names of the candidates of data that lack a required key.
IncompleteNames(data, rk) ==
    {data[i].name : i \in {j \in 1..Len(data) : ~(Range(rk) \subseteq DOMAIN data[j])}}

Init ==
    /\ required_keys \in RequiredKeyChoices
    /\ seen_names = {}
    /\ page_number = 1
    /\ all_venues = <<>>
    /\ pc = "loop"
    /\ call = NoCall
    /\ ret = NoResult
    /\ file = NoFile
    /\ file_before = NoFile
    /\ scenario = "start"
    /\ dropped = {}

\* ------------------------------------------------------------ the actions

\* One call of fetch_and_process_page for the page under the cursor.
FetchPage(probe, ext) ==
    /\ pc = "loop"
    /\ page_number <= MaxPages
    /\ LET r == fetch_and_process_page(probe, ext, required_keys, seen_names)
       IN  /\ ret' = r
           /\ seen_names' = r.seen_names
           /\ pc' = IF r.outcome = "raised" THEN "crashed" ELSE "returned"
           /\ scenario' = ScenarioNext(scenario, page_number, probe, r.ext, seen_names)
           /\ dropped' = dropped \cup IncompleteNames(r.ext.data, required_keys)
    /\ call' = [page |-> page_number, probe |-> probe, seen_before |-> seen_names]
    /\ UNCHANGED <<required_keys, page_number, all_venues, file, file_before>>

\* The driver after a call that did not report the terminal flag: it appends
\* the accepted records and moves the cursor on.
DriverContinue ==
    /\ pc = "returned"
    /\ ~ret.flag
    /\ all_venues' = all_venues \o ret.records
    /\ page_number' = page_number + 1
    /\ pc' = "loop"
    /\ call' = NoCall
    /\ ret' = NoResult
    /\ UNCHANGED <<required_keys, seen_names, file, file_before, scenario, dropped>>

\* The driver after a call that reported the terminal flag: it stops.
DriverStop ==
    /\ pc = "returned"
    /\ ret.flag
    /\ pc' = "done"
    /\ UNCHANGED <<required_keys, seen_names, page_number, all_venues, call, ret,
                   file, file_before, scenario, dropped>>

\* The model's page cap: the run ends without a terminal page.
PageCap ==
    /\ pc = "loop"
    /\ page_number > MaxPages
    /\ pc' = "done"
    /\ UNCHANGED <<required_keys, seen_names, page_number, all_venues, call, ret,
                   file, file_before, scenario, dropped>>

\* save_keys_to_csv(all_venues, filename) at the end of the run; before is
\* the file the call finds at the target path.
Save(before) ==
    /\ pc = "done"
    /\ file_before' = before
    /\ LET r == save_keys_to_csv(all_venues, before)
       IN  /\ file' = r.file
           /\ pc' = IF r.raised THEN "save_raised" ELSE "saved"
    /\ UNCHANGED <<required_keys, seen_names, page_number, all_venues, call, ret,
                   scenario, dropped>>

\* The extraction results a page can give: a page whose probe shows the
\* marker is never asked for one.
ExtractionResultsFor(probe) ==
    IF probe.success /\ probe.marker THEN {NotFetched} ELSE ExtractionResults

Next ==
    \/ \E probe \in ProbeResults :
          \E ext \in ExtractionResultsFor(probe) : FetchPage(probe, ext)
    \/ DriverContinue
    \/ DriverStop
    \/ PageCap
    \/ \E before \in {NoFile, OldFile} : Save(before)

Spec == Init /\ [][Next]_vars

\* ----------------------------------------------------- claims: vocabulary

\* The candidates the call in hand read, and the records accepted by all the
\* calls so far (the master sequence and what the call in hand returned).
Data == ret.ext.data
AcceptedSoFar == all_venues \o ret.records
NamesOf(records) == {records[i].name : i \in 1..Len(records)}

\* The call in hand returned after reading a non-empty candidate sequence.
ReturnedPage ==
    ret.outcome = "returned" /\ ~ret.flag /\ ret.ext.payload = "json" /\ Len(Data) > 0

\* (a) every key of required_keys is a key of the candidate.
KeysPresent(c) == Range(required_keys) \subseteq DOMAIN c

\* (a) and (b) for the candidate at index i: its name is neither in the set at
\* call entry nor the name of a candidate accepted earlier on the page.
RECURSIVE ShouldAccept(_)
ShouldAccept(i) ==
    /\ KeysPresent(Data[i])
    /\ Data[i].name \notin call.seen_before
    /\ \A j \in 1..(i - 1) : ~(ShouldAccept(j) /\ Data[j].name = Data[i].name)

ShouldAcceptSet == {i \in 1..Len(Data) : ShouldAccept(i)}

\* The k-th smallest element of a set of indices.
Kth(S, k) == CHOOSE i \in S : Cardinality({j \in S : j < i}) = k - 1

HasErrorFalse(c) == "error" \in DOMAIN c /\ c["error"] = "False"

\* Record r is candidate c as accepted: c itself, or c less its error key when
\* that key was false.
IsAcceptedFormOf(r, c) ==
    IF HasErrorFalse(c) THEN r = WithoutKey(c, "error") ELSE r = c

\* ------------------------------------------------------------------- C1

\* C1: across all calls sharing one seen_names set that starts empty, the names
\* of the records returned as accepted are pairwise distinct, also for two
\* candidates with the same name on one page.
C1_AcceptedNamesDistinct ==
    \A i, j \in 1..Len(AcceptedSoFar) :
        i # j => AcceptedSoFar[i].name # AcceptedSoFar[j].name

\* A second page with two complete candidates of one new name, of which one was
\* accepted, after a page that had accepted records.
C1_Witness ==
    /\ ReturnedPage
    /\ Len(all_venues) >= 1
    /\ Len(Data) = 2
    /\ KeysPresent(Data[1]) /\ KeysPresent(Data[2])
    /\ Data[1].name = Data[2].name
    /\ Len(ret.records) = 1

\* ------------------------------------------------------------------- C2

\* C2: when the probe is not terminal and the extraction returned a non-empty
\* candidate sequence, the returned list holds exactly the candidates that have
\* every required key (whatever the values) and whose name is not yet seen when
\* they are processed, in extraction order.
C2_AcceptedIffCompleteAndNew ==
    ReturnedPage =>
        /\ Len(ret.records) = Cardinality(ShouldAcceptSet)
        /\ \A k \in 1..Len(ret.records) :
              IsAcceptedFormOf(ret.records[k], Data[Kth(ShouldAcceptSet, k)])

\* A page whose first candidate has falsy values and was accepted, and whose
\* second candidate was rejected.
C2_Witness ==
    /\ ReturnedPage
    /\ Len(Data) = 2
    /\ Data[1].reviews = "0" /\ Data[1].price = ""
    /\ ret.records = <<Data[1]>>

\* ------------------------------------------------------------------- C3

\* C3: the driver never fetches a page after the first page whose probe holds
\* the terminal marker, its master sequence grows by exactly the accepted list
\* of each page in page order, and on the three-page scenario it ends with
\* exactly 3 records without fetching page 4.
C3_DriverStopsAtTerminalPage ==
    /\ [](scenario = "ended" => Len(all_venues) = 3 /\ page_number = 3 /\ pc # "loop")
    /\ [][ /\ (call.probe.success /\ call.probe.marker)
                => (call' = call /\ page_number' = page_number /\ pc' # "loop")
           /\ (pc = "returned" /\ pc' = "loop")
                => all_venues' = all_venues \o ret.records
           /\ ~(pc = "returned" /\ pc' = "loop") => all_venues' = all_venues
         ]_vars

\* The scenario ran to its end and the driver stopped.
C3_Witness == scenario = "ended" /\ pc = "done" /\ Len(all_venues) = 3

\* ------------------------------------------------------------------- C4

\* C4: a candidate that lacks a required key is never in the accepted output
\* and its name is not added to seen_names by that call: the names a call adds
\* are names of candidates with every required key, seen_names holds exactly
\* the names of the accepted records, and a candidate with every required key
\* whose name is not in seen_names at call entry has that name accepted.
C4_IncompleteLeavesNoTrace ==
    /\ \A k \in 1..Len(AcceptedSoFar) : KeysPresent(AcceptedSoFar[k])
    /\ seen_names = NamesOf(AcceptedSoFar)
    /\ ret.outcome = "returned" =>
          /\ \A i \in 1..Len(Data) :
                ~KeysPresent(Data[i]) =>
                    \A k \in 1..Len(ret.records) : ret.records[k] # Data[i]
          /\ (seen_names \ call.seen_before)
                \subseteq {Data[i].name : i \in {j \in 1..Len(Data) : KeysPresent(Data[j])}}
          /\ \A i \in 1..Len(Data) :
                (KeysPresent(Data[i]) /\ Data[i].name \notin call.seen_before)
                    => Data[i].name \in NamesOf(ret.records)

\* A name dropped on an earlier page for a missing key is accepted on this one.
C4_Witness ==
    /\ ReturnedPage
    /\ IncompleteNames(Data, required_keys) = {}
    /\ \E k \in 1..Len(ret.records) : ret.records[k].name \in dropped

\* ------------------------------------------------------------------- C5

\* C5: a candidate with every required key and an error key whose value is
\* false is accepted without its error key (when its name is new), and no
\* accepted record carries an error key whose value is false.
C5_ErrorFalseStripped ==
    /\ \A k \in 1..Len(AcceptedSoFar) : ~HasErrorFalse(AcceptedSoFar[k])
    /\ ReturnedPage =>
          \A i \in 1..Len(Data) :
              (HasErrorFalse(Data[i]) /\ ShouldAccept(i))
                  => \E k \in 1..Len(ret.records) :
                        ret.records[k] = WithoutKey(Data[i], "error")

\* A candidate with error: false was accepted, less its error key.
C5_Witness ==
    /\ ReturnedPage
    /\ \E i \in 1..Len(Data) :
          /\ HasErrorFalse(Data[i])
          /\ \E k \in 1..Len(ret.records) :
                ret.records[k] = WithoutKey(Data[i], "error")

\* ------------------------------------------------------------------- C6

\* The rows save_keys_to_csv is to write for records: the seven fields of each.
C6_ExpectedRows(records) ==
    [i \in 1..Len(records) |->
        [f \in 1..Len(SiteFieldNames) |-> records[i][SiteFieldNames[f]]]]

\* C6: for every non-empty sequence of records accepted with required_keys the
\* seven Site fields, save_keys_to_csv completes and the file holds the header
\* row and one row of the seven fields per record, in accumulation order.
C6_SaveWritesEveryRecord ==
    (pc \in {"saved", "save_raised"} /\ required_keys = SiteFieldNames
        /\ Len(all_venues) > 0)
    => /\ pc = "saved"
       /\ file.exists
       /\ file.rows = <<SiteFieldNames>> \o C6_ExpectedRows(all_venues)

\* ------------------------------------------------------------------- C7

\* C7: save_keys_to_csv with an empty record sequence leaves the file as it
\* found it: none is created, an existing one keeps its content.
C7_EmptySaveLeavesFile ==
    (pc \in {"saved", "save_raised"} /\ Len(all_venues) = 0)
    => (pc = "saved" /\ file = file_before)

\* An empty save that found a file of an earlier run.
C7_Witness ==
    pc = "saved" /\ Len(all_venues) = 0 /\ file_before = OldFile /\ file = OldFile

\* ------------------------------------------------------------------- C8

\* C8: for every outcome of the probe fetch and of the extraction fetch the
\* call returns a (records, terminal_flag) pair; no error propagates.
C8_NoErrorPropagates == ret.outcome # "raised" /\ pc # "crashed"

\* ------------------------------------------------------------------- C9

\* C9: the returned terminal flag is true exactly when the probe succeeded and
\* its cleaned text holds the marker; then the returned list is empty, no
\* extraction fetch was issued and seen_names is as at call entry.
C9_TerminalFlag ==
    /\ ret.outcome = "returned" =>
          /\ ret.flag <=> (call.probe.success /\ call.probe.marker)
          /\ ret.flag =>
                /\ ret.records = <<>>
                /\ ret.fetches = 1
                /\ ret.ext = NotFetched
                /\ seen_names = call.seen_before
          /\ ~ret.flag => ret.fetches = 2
    /\ ret.outcome = "raised" => ~ret.flag

\* A terminal page met after names were seen.
C9_Witness ==
    ret.outcome = "returned" /\ ret.flag /\ call.seen_before # {} /\ call.page > 1

\* ------------------------------------------------------------------ C10

\* C10: a failed probe is reported by a log line of check_no_results and the
\* extraction fetch is still issued; a probe that succeeded writes no such line.
C10_ProbeFailureLogged ==
    ret.outcome # "none" =>
        /\ ~call.probe.success =>
              ("probe_error" \in Range(ret.log) /\ ~ret.flag /\ ret.fetches = 2)
        /\ call.probe.success => "probe_error" \notin Range(ret.log)

====
